---- MODULE Spec2Model ----
(***************************************************************************)
(* Model of src/broadcast-manager.js: the broadcast manager that captures  *)
(* the schedule table, uploads it to the blob store and creates or updates *)
(* the broadcast record, together with the auto-broadcast session flag.    *)
(*                                                                         *)
(* One step of a publish is one remote call together with the synchronous  *)
(* code that runs when its promise settles, up to the next await.          *)
(* What the module reads from the page at a call (the auth provider, the   *)
(* table, readState) is an input of that call.  showBroadcastDialog has no *)
(* precondition and touches nothing but the page, so the handlers of the   *)
(* dialog are available at any time.                                       *)
(***************************************************************************)
EXTENDS Integers, Sequences, FiniteSets, TLC

(* ---------------------------------------------------------------- bounds *)
MaxPub == 2        \* calls of push and hook in a behaviour of SpecPub, SpecRace
MaxFlagPub == 1    \* calls of push, hook and refresh in a behaviour of SpecFlag
MaxFail == 1       \* remote calls that fail for a reason outside the model
NumCodes == 2      \* distinct outcomes of generateCode offered to a publish
MaxTitleLen == 2   \* code units of a title given to the derivation of fileName
MaxCols == 2       \* columns of a column configuration
MaxDepth == 1      \* levels of elements below the schedule table

\* an invocation of pushBroadcast is known by the number of its call; all
\* the calls of a behaviour may be in flight together
Procs == 1..(IF MaxPub > MaxFlagPub THEN MaxPub ELSE MaxFlagPub)
\* the identities getCurrentUser() may return
Users == {"u1"}

(* ------------------------------------------------------- generateCode *)
\* variant: the letter I is left in the alphabet
charsWithI == <<"A","B","C","D","E","F","G","H","I","J","K","L","M","N","P","Q",
                "R","S","T","U","V","W","X","Y","Z","2","3","4","5","6","7","8",
                "9">>

chars == <<"A","B","C","D","E","F","G","H","J","K","L","M","N","P","Q","R",
           "S","T","U","V","W","X","Y","Z","2","3","4","5","6","7","8","9">>

CodeLen == 6

\* Math.floor(Math.random() * chars.length): Math.random() is in [0,1)
RandomIndex == 0..(Len(chars) - 1)

\* String.prototype.charAt: the empty string outside the string
charAt(s, k) == IF k \in 0..(Len(s) - 1) THEN <<s[k + 1]>> ELSE <<>>

RECURSIVE GenLoop(_, _, _)
GenLoop(rs, i, code) ==
  IF i < CodeLen THEN GenLoop(rs, i + 1, code \o charAt(chars, rs[i + 1]))
                 ELSE code

\* rs[i] is the random index drawn in iteration i of the loop
generateCode(rs) == GenLoop(rs, 0, <<>>)

\* the code made of the character at index k throughout
CodeOf(k) == generateCode([i \in 1..CodeLen |-> k])

(* ------------------------------------------------------ titles, names *)
AlNum == {"A","B","C","D","E","F","G","H","I","J","K","L","M","N","O","P",
          "Q","R","S","T","U","V","W","X","Y","Z",
          "a","b","c","d","e","f","g","h","i","j","k","l","m","n","o","p",
          "q","r","s","t","u","v","w","x","y","z",
          "0","1","2","3","4","5","6","7","8","9"}

\* variant: the pattern lacks the g flag and replaces the first match only
deriveFirstOnly(title) ==
  [i \in 1..Len(title) |->
     IF title[i] \notin AlNum /\ \A j \in 1..(i - 1) : title[j] \in AlNum
     THEN "_" ELSE title[i]]

\* title.replace(/[^a-zA-Z0-9]/g, '_')
deriveFileName(title) ==
  [i \in 1..Len(title) |-> IF title[i] \in AlNum THEN title[i] ELSE "_"]

DefaultTitle == <<"S","c","h","e","d","u","l","e">>

\* the empty sequence stands for undefined and for '' (both falsy)
OptTitles == {<<>>, <<"Q","!">>}
StateTitles == {<<>>, <<"Q","!">>}

\* options.title || state.projectMeta?.title || 'Schedule'
resolveTitle(optTitle, stateTitle) ==
  IF optTitle # <<>> THEN optTitle
  ELSE IF stateTitle # <<>> THEN stateTitle
  ELSE DefaultTitle

\* a ?? b, with <<>> for undefined and <<v>> for a defined v
Nullish(a, b) == IF a = <<>> THEN b ELSE a[1]

null == [null |-> TRUE]

VARIABLES
  currentBroadcast,  \* the cached record, or null
  autoBroadcast,     \* the session flag
  localStorage,      \* the item 'broadcastAutoUpdate': <<>> absent, <<s>> set
  initPending,       \* init is waiting for DOMContentLoaded
  records,           \* the rows of the table 'broadcasts'
  blobs,             \* the objects of the bucket 'schedule-files'
  proc,              \* the pushBroadcast invocations
  nPub,              \* calls of push, hook and refresh so far
  nFail,             \* remote calls failed so far for an outside reason
  maxPub,            \* the bound on nPub in this behaviour
  users,             \* the identities the auth provider has in this behaviour
  pageTitles,        \* the titles the page's state may hold in this behaviour
  last,              \* the call that settled in the step just taken, if any
  lastSet,           \* history: the last value given to the flag's setters
  rnd,               \* generateCode on its own: the draws
  genOut,            \* generateCode on its own: the code returned
  nameIn,            \* the derivation of fileName on its own: the title
  nameOut,           \* the fileName derived from nameIn
  nameAgain,         \* the fileName derived from nameOut
  colsIn,            \* the hidden columns on their own: readState()?.cols
  hiddenOut,         \* hiddenCols, once computed
  dom,               \* captureTableHTML on its own: the table of the page and
                     \* its clone
  capRef,            \* the object the constant clone refers to
  capPc,             \* the position in captureTableHTML
  capHtml            \* what captureTableHTML returns

vars == <<currentBroadcast, autoBroadcast, localStorage, initPending,
          records, blobs, proc, nPub, nFail, maxPub, users, pageTitles, last,
          lastSet,
          rnd, genOut, nameIn, nameOut, nameAgain, colsIn, hiddenOut,
          dom, capRef, capPc, capHtml>>

sessionVars == <<autoBroadcast, localStorage, initPending, lastSet>>
pubVars == <<currentBroadcast, records, blobs, proc, nPub>>
codeVars == <<rnd, genOut>>
nameVars == <<nameIn, nameOut, nameAgain>>
colsVars == <<colsIn, hiddenOut>>
capVars == <<dom, capRef, capPc, capHtml>>
genVars == <<codeVars, nameVars, colsVars, capVars>>
envVars == <<maxPub, users, pageTitles>>

IdleProc == [pc |-> "idle", origin |-> "none", n |-> 0, isAuth |-> FALSE,
             user |-> "unread", table |-> "unread",
             title |-> <<>>, fileName |-> <<>>, optAuto |-> <<>>,
             warm |-> FALSE, broadcast |-> null, code |-> <<>>,
             trace |-> <<>>]

NoneSettled == [origin |-> "none", isAuth |-> FALSE, user |-> "unread",
                table |-> "unread", fileName |-> <<>>, optAuto |-> <<>>,
                trace |-> <<>>, err |-> "none", settled |-> "none",
                code |-> <<>>]

\* hookAutoBroadcast returned without calling pushBroadcast
HookSkipped == [NoneSettled EXCEPT !.origin = "hook", !.settled = "skipped"]

(* ------------------------------------------------------- session flag *)
LsValues == {<<>>, <<"true">>, <<"false">>, <<"1">>}

\* localStorage.setItem stores String(value)
toStr(b) == IF b THEN "true" ELSE "false"
\* variant: any stored string switches the flag on
readAnySetting(ls) == ls # <<>>

\* localStorage.getItem('broadcastAutoUpdate') === 'true'
readAutoSetting(ls) == ls = <<"true">>

\* the state once the script has been evaluated: init has run, or waits
\* for DOMContentLoaded
Loaded(ls, pending, bound, us, ts) ==
  /\ currentBroadcast = null
  /\ localStorage = ls
  /\ initPending = pending
  /\ autoBroadcast = IF pending THEN FALSE ELSE readAutoSetting(ls)
  /\ records = {}
  /\ blobs = {}
  /\ proc = [p \in Procs |-> IdleProc]
  /\ nPub = 0
  /\ nFail = 0
  /\ maxPub = bound
  /\ users = us
  /\ pageTitles = ts
  /\ last = NoneSettled
  /\ lastSet = <<>>

\* generateCode is not under study
CodeIdle == rnd = <<>> /\ genOut = <<>>
\* the derivation of fileName is not under study
NameIdle == nameIn = <<>> /\ nameOut = <<>> /\ nameAgain = <<>>
\* the hidden columns are not under study
ColsIdle == colsIn = <<>> /\ hiddenOut = <<>>
\* the capture of the table is not under study
CapIdle == dom = null /\ capRef = "none" /\ capPc = "idle" /\ capHtml = null
GenIdle == CodeIdle /\ NameIdle /\ ColsIdle /\ CapIdle

\* init, run by DOMContentLoaded when the script was evaluated while loading
init ==
  /\ initPending
  /\ initPending' = FALSE
  /\ autoBroadcast' = readAutoSetting(localStorage)
  /\ last' = NoneSettled
  /\ UNCHANGED <<localStorage, lastSet, pubVars, nFail, envVars, genVars>>

\* the page is loaded again: the script is evaluated from the top, the
\* invocations in flight are gone, the stores and localStorage stay;
\* loading: document.readyState === 'loading', init waits
Load(loading) ==
  /\ currentBroadcast' = null
  /\ initPending' = loading
  /\ autoBroadcast' = IF loading THEN FALSE ELSE readAutoSetting(localStorage)
  /\ proc' = [p \in Procs |-> IdleProc]
  /\ last' = NoneSettled
  /\ UNCHANGED <<localStorage, lastSet, records, blobs, nPub, nFail,
                 envVars, genVars>>

Reload == Load(FALSE)
ReloadWhileLoading == Load(TRUE)

\* BroadcastManager.setAutoEnabled(val)
setAutoEnabled(val) ==
  /\ autoBroadcast' = val
  /\ localStorage' = <<toStr(val)>>
  /\ lastSet' = <<val>>
  /\ last' = NoneSettled
  /\ UNCHANGED <<initPending, pubVars, nFail, envVars, genVars>>

\* onchange of the checkbox #broadcastAutoUpdate
onAutoUpdateChange(checked) ==
  /\ autoBroadcast' = checked
  /\ localStorage' = <<toStr(checked)>>
  /\ lastSet' = <<checked>>
  /\ last' = NoneSettled
  /\ UNCHANGED <<initPending, pubVars, nFail, envVars, genVars>>

(* ------------------------------------------------------- pushBroadcast *)
AuthErrors == {"Not authenticated", "No user"}
CaptureError == "Could not capture table"
\* variant: the isAuthenticated check is missing
authNeverFails(isAuth) == FALSE

\* !window.SupabaseAPI?.auth?.isAuthenticated?.()
authFails(isAuth) == ~isAuth

\* !user
noUser(user) == user = "null"

\* captureTableHTML as pushBroadcast sees it: null without a table, else
\* the html captured by the n-th call
captureTableHTML(tablePresent, n) ==
  IF ~tablePresent THEN null ELSE [body |-> n]
\* variant: the check of the captured html is missing
captureNeverFails(html) == FALSE

\* !html
captureFails(html) == html = null

\* the synchronous checks at the top of pushBroadcast
preflight(isAuth, user, tablePresent, n) ==
  IF authFails(isAuth) THEN "Not authenticated"
  ELSE IF noUser(user) THEN "No user"
  ELSE IF captureFails(captureTableHTML(tablePresent, n)) THEN CaptureError
  ELSE "none"
\* variant: hookAutoBroadcast attaches no catch
settleNoCatch(origin, err) ==
  IF err = "none" THEN "resolved"
  ELSE IF origin = "refresh" THEN "shown"
  ELSE "rejected"

\* what becomes of the promise pushBroadcast returned: the caller of
\* BroadcastManager.push gets it, hookAutoBroadcast attaches a catch that
\* logs, the refresh button awaits it inside try/catch
settle(origin, err) ==
  IF err = "none" THEN "resolved"
  ELSE IF origin = "hook" THEN "logged"
  ELSE IF origin = "refresh" THEN "shown"
  ELSE "rejected"

\* .single(): the row when exactly one row matches, else no data
single(rows) == IF Cardinality(rows) = 1 THEN CHOOSE r \in rows : TRUE ELSE null

htmlPath(user, fileName) == <<user, fileName>>

InFlight(p) == proc[p].pc # "idle"

\* what pushBroadcast has read of the page when its checks are over
userRead(isAuth, user) == IF authFails(isAuth) THEN "unread" ELSE user
tableRead(isAuth, user, tablePresent) ==
  IF authFails(isAuth) \/ noUser(user) THEN "unread"
  ELSE IF tablePresent THEN "present" ELSE "absent"

\* variant: the lookup is made whatever the cache holds
neverSkipsLookup(broadcast) == FALSE

\* let broadcast = currentBroadcast; if (!broadcast) { ...lookup... }
skipsLookup(broadcast) == broadcast # null

\* pushBroadcast(options) up to its first await, called for the p-th time
begin(p, origin, optTitle, optAuto, isAuth, user, tablePresent, stateTitle) ==
  /\ p = nPub + 1
  /\ nPub < maxPub
  /\ nPub' = nPub + 1
  /\ LET n == p
         err == preflight(isAuth, user, tablePresent, n)
         title == resolveTitle(optTitle, stateTitle)
         fileName == deriveFileName(title)
         broadcast == currentBroadcast
     IN IF err # "none"
        THEN /\ last' = [NoneSettled EXCEPT
                           !.origin = origin, !.isAuth = isAuth,
                           !.user = userRead(isAuth, user),
                           !.table = tableRead(isAuth, user, tablePresent),
                           !.optAuto = optAuto, !.err = err,
                           !.settled = settle(origin, err)]
             /\ UNCHANGED proc
        ELSE /\ proc' = [proc EXCEPT ![p] =
                  [pc |-> IF skipsLookup(broadcast) THEN "remove" ELSE "find",
                   origin |-> origin, n |-> n, isAuth |-> isAuth,
                   user |-> user,
                   table |-> tableRead(isAuth, user, tablePresent),
                   title |-> title, fileName |-> fileName,
                   optAuto |-> optAuto, warm |-> broadcast # null,
                   broadcast |-> broadcast,
                   code |-> IF broadcast # null THEN broadcast.code ELSE <<>>,
                   trace |-> <<>>]]
             /\ last' = NoneSettled
  /\ UNCHANGED <<currentBroadcast, records, blobs>>

\* the invocation p settles: its promise resolves or rejects
finish(p, err, rec, res) ==
  LET q == proc[p]
  IN /\ last' = [origin |-> q.origin, isAuth |-> q.isAuth,
                 user |-> q.user, table |-> q.table,
                 fileName |-> q.fileName, optAuto |-> q.optAuto,
                 trace |-> Append(q.trace, res),
                 err |-> err, settled |-> settle(q.origin, err),
                 code |-> IF err = "none" THEN rec.code ELSE <<>>]
     /\ proc' = [proc EXCEPT ![p] = IdleProc]

\* the codes in the store and in the hands of the invocations in flight
CodesOut ==
  {r.code : r \in records} \cup {proc[q].code : q \in {x \in Procs : InFlight(x)}}

\* the outcomes of generateCode offered to a publish: each code that is out
\* already, and the first that is not
PubDraws ==
  {k \in 0..(NumCodes - 1) : \A j \in 0..(k - 1) : CodeOf(j) \in CodesOut}

\* client.from('broadcasts').select('*').eq(..).eq(..).single(), whose
\* error is not read, then the choice of the code and the call of remove
find(p, fail) ==
  /\ proc[p].pc = "find"
  /\ LET q == proc[p]
         rows == {r \in records : r.user_id = q.user /\ r.file_name = q.fileName}
         data == IF fail THEN null ELSE single(rows)
     IN \E k \in PubDraws :
          /\ data # null => k = 0
          /\ proc' = [proc EXCEPT ![p] =
               [q EXCEPT !.pc = "remove",
                         !.broadcast = data,
                         !.code = IF data # null THEN data.code ELSE CodeOf(k),
                         !.trace = Append(q.trace,
                                     [c |-> "find",
                                      res |-> IF fail THEN "error" ELSE "ok"])]]
  /\ last' = NoneSettled
  /\ UNCHANGED <<currentBroadcast, records, blobs, nPub>>

\* variant: remove leaves the object where it is
removeKeeps(bs, path) == bs

\* the bucket after remove([path])
removeObject(bs, path) == {b \in bs : b.path # path}

\* storage.remove([htmlPath]) inside try/catch: whatever it returns or
\* throws, the upload is called next
remove(p, fail) ==
  /\ proc[p].pc = "remove"
  /\ LET q == proc[p]
         path == htmlPath(q.user, q.fileName)
     IN /\ blobs' = IF fail THEN blobs ELSE removeObject(blobs, path)
        /\ proc' = [proc EXCEPT ![p] =
             [q EXCEPT !.pc = "upload",
                       !.trace = Append(q.trace,
                                   [c |-> "remove",
                                    res |-> IF fail THEN "error" ELSE "ok"])]]
  /\ last' = NoneSettled
  /\ UNCHANGED <<currentBroadcast, records, nPub>>

\* an upload with upsert: false is refused when the path holds an object
uploadRefused(path) == \E b \in blobs : b.path = path

\* variant: the error of the upload is not thrown
uploadNeverThrows(res) == FALSE

\* if (uploadError) throw uploadError
uploadThrows(res) == res # "ok"

\* storage.upload(htmlPath, blob, { cacheControl: '60', upsert: false })
upload(p, fail) ==
  /\ proc[p].pc = "upload"
  /\ LET q == proc[p]
         path == htmlPath(q.user, q.fileName)
         res == IF fail THEN "error"
                ELSE IF uploadRefused(path) THEN "exists" ELSE "ok"
     IN IF uploadThrows(res)
        THEN /\ finish(p, "uploadError", null, [c |-> "upload", res |-> res])
             /\ UNCHANGED blobs
        ELSE /\ blobs' = IF res = "ok"
                         THEN blobs \cup {[path |-> path, body |-> q.n]}
                         ELSE blobs
             /\ proc' = [proc EXCEPT ![p] =
                  [q EXCEPT !.pc = IF q.broadcast # null THEN "update"
                                                         ELSE "insert",
                            !.trace = Append(q.trace,
                                        [c |-> "upload", res |-> res])]]
             /\ last' = NoneSettled
  /\ UNCHANGED <<currentBroadcast, records, nPub>>
\* variant: the update writes a code of its own
updateFieldsNewCode(r, q) ==
  [r EXCEPT !.title = q.title,
            !.code = IF r.code = CodeOf(0) THEN CodeOf(1) ELSE CodeOf(0),
            !.auto_update = Nullish(q.optAuto, q.broadcast.auto_update),
            !.updated_at = "now"]

\* the fields written by .update({...}); of the time the model keeps nothing
updateFields(r, q) ==
  [r EXCEPT !.title = q.title,
            !.auto_update = Nullish(q.optAuto, q.broadcast.auto_update),
            !.updated_at = "now"]

\* variant: currentBroadcast = data comes before the error is thrown
cacheAssignedFirst(error, data, cache) == data

\* if (error) throw error; currentBroadcast = data;
cacheAfter(error, data, cache) == IF error THEN cache ELSE data

\* client.from('broadcasts').update({...}).eq('id', broadcast.id)
\*   .select().single()
update(p, fail) ==
  /\ proc[p].pc = "update"
  /\ LET q == proc[p]
         rows == {r \in records : r.id = q.broadcast.id}
         old == single(rows)
         new == updateFields(old, q)
     IN IF fail \/ old = null
        THEN /\ finish(p, "updateError", null, [c |-> "update", res |-> "error"])
             /\ currentBroadcast' = cacheAfter(TRUE, null, currentBroadcast)
             /\ UNCHANGED records
        ELSE /\ records' = (records \ {old}) \cup {new}
             /\ currentBroadcast' = cacheAfter(FALSE, new, currentBroadcast)
             /\ finish(p, "none", new, [c |-> "update", res |-> "ok"])
  /\ UNCHANGED <<blobs, nPub>>

\* the row given to .insert({...}); the store gives it its id
insertFields(q) ==
  [id |-> Cardinality(records) + 1, code |-> q.code, user_id |-> q.user,
   file_name |-> q.fileName, title |-> q.title,
   auto_update |-> Nullish(q.optAuto, FALSE), updated_at |-> "now"]
\* variant: the store has no uniqueness constraint
insertNeverRefused(row) == FALSE

\* the store keeps (user_id, file_name) unique and refuses a second row
insertRefused(row) ==
  \E r \in records : r.user_id = row.user_id /\ r.file_name = row.file_name

\* client.from('broadcasts').insert({...}).select().single()
insert(p, fail) ==
  /\ proc[p].pc = "insert"
  /\ LET q == proc[p]
         new == insertFields(q)
         res == IF fail THEN "error"
                ELSE IF insertRefused(new) THEN "duplicate" ELSE "ok"
     IN IF res # "ok"
        THEN /\ finish(p, "insertError", null, [c |-> "insert", res |-> res])
             /\ currentBroadcast' = cacheAfter(TRUE, null, currentBroadcast)
             /\ UNCHANGED records
        ELSE /\ records' = records \cup {new}
             /\ currentBroadcast' = cacheAfter(FALSE, new, currentBroadcast)
             /\ finish(p, "none", new, [c |-> "insert", res |-> "ok"])
  /\ UNCHANGED <<blobs, nPub>>

(* -------------------------------------------------------- entry points *)
\* getCurrentUser(): one of the identities, or null
AuthUsers == users \cup {"null"}

\* the page as a call of pushBroadcast reads it: isAuthenticated(), then
\* getCurrentUser(), then the table; what a call does not get to read is
\* not drawn
PageReads ==
  {rd \in [isAuth : BOOLEAN, user : AuthUsers, table : BOOLEAN] :
     /\ authFails(rd.isAuth) => rd.user = "null"
     /\ (authFails(rd.isAuth) \/ noUser(rd.user)) => ~rd.table}

\* BroadcastManager.push(options)
push(p) ==
  /\ \E optTitle \in OptTitles, rd \in PageReads, stateTitle \in pageTitles :
       begin(p, "push", optTitle, <<>>, rd.isAuth, rd.user, rd.table, stateTitle)
  /\ UNCHANGED <<sessionVars, nFail, envVars, genVars>>
\* variant: the hook does not read the flag
hookAlwaysFires(flag) == TRUE

\* if (autoBroadcast)
hookFires(flag) == flag

\* the options hookAutoBroadcast passes: { autoUpdate: true }
hookOptions == [title |-> <<>>, autoUpdate |-> <<TRUE>>]

\* hookAutoBroadcast()
hookAutoBroadcast(p) ==
  /\ IF hookFires(autoBroadcast)
     THEN \E rd \in PageReads, stateTitle \in pageTitles :
            begin(p, "hook", hookOptions.title, hookOptions.autoUpdate,
                  rd.isAuth, rd.user, rd.table, stateTitle)
     ELSE /\ p = nPub + 1
          /\ nPub < maxPub
          /\ nPub' = nPub + 1
          /\ last' = HookSkipped
          /\ UNCHANGED <<currentBroadcast, records, blobs, proc>>
  /\ UNCHANGED <<sessionVars, nFail, envVars, genVars>>

\* onclick of #broadcastRefreshBtn, which is disabled while its push runs
onRefreshClick(p) ==
  /\ \A q \in Procs : proc[q].origin # "refresh"
  /\ \E rd \in PageReads, stateTitle \in pageTitles :
       begin(p, "refresh", <<>>, <<autoBroadcast>>, rd.isAuth, rd.user, rd.table,
             stateTitle)
  /\ UNCHANGED <<sessionVars, nFail, envVars, genVars>>

\* a remote call answers; fail: it fails for a reason outside the model
Remote(p) ==
  /\ \E fail \in BOOLEAN :
       /\ fail => nFail < MaxFail
       /\ nFail' = IF fail THEN nFail + 1 ELSE nFail
       /\ \/ find(p, fail)
          \/ remove(p, fail)
          \/ upload(p, fail)
          \/ update(p, fail)
          \/ insert(p, fail)
  /\ UNCHANGED <<sessionVars, envVars, genVars>>

NextPub ==
  \/ Reload
  \/ \E p \in Procs : push(p)
  \/ \E p \in Procs : Remote(p)

NextRace ==
  \/ \E p \in Procs : push(p)
  \/ \E p \in Procs : hookAutoBroadcast(p)
  \/ \E p \in Procs : Remote(p)

NextFlag ==
  \/ init
  \/ Reload
  \/ ReloadWhileLoading
  \/ \E b \in BOOLEAN : setAutoEnabled(b)
  \/ \E b \in BOOLEAN : onAutoUpdateChange(b)
  \/ \E p \in Procs : push(p)
  \/ \E p \in Procs : hookAutoBroadcast(p)
  \/ \E p \in Procs : onRefreshClick(p)
  \/ \E p \in Procs : Remote(p)

InitPub == Loaded(<<>>, FALSE, MaxPub, Users, StateTitles) /\ GenIdle
InitRace == Loaded(<<"true">>, FALSE, MaxPub, Users, {<<>>}) /\ GenIdle
InitFlag ==
  /\ \E ls \in LsValues, pending \in BOOLEAN :
       Loaded(ls, pending, MaxFlagPub, Users, {<<>>})
  /\ GenIdle

\* the manual publishes of one user, over page loads
SpecPub == InitPub /\ [][NextPub]_vars

\* manual publishes and those of the save hook, auto-update switched on,
\* within one page load
SpecRace == InitRace /\ [][NextRace]_vars

\* the session flag, its setters and the callers of pushBroadcast
SpecFlag == InitFlag /\ [][NextFlag]_vars

(* ------------------------------------------ generateCode on its own *)
\* the draws given to generateCode: one index throughout, but for one place
RandSeqs ==
  {[i \in 1..CodeLen |-> IF i = j THEN v ELSE k] :
     j \in 1..CodeLen, v \in RandomIndex, k \in RandomIndex}

InitGen ==
  /\ Loaded(<<>>, FALSE, 0, {}, {})
  /\ rnd \in RandSeqs
  /\ genOut = <<>>
  /\ NameIdle
  /\ ColsIdle
  /\ CapIdle

Generate ==
  /\ genOut = <<>>
  /\ genOut' = generateCode(rnd)
  /\ UNCHANGED <<rnd, nameVars, colsVars, capVars, sessionVars, pubVars, last, nFail, envVars>>

NextGen == Generate

SpecGen == InitGen /\ [][NextGen]_vars

(* ------------------------------ the derivation of fileName on its own *)
\* the code units the titles are made of: letters and digits, and units the
\* pattern [^a-zA-Z0-9] matches, the underscore among them
TitleUnits == {"Q", "z", "1", " ", "!", "_"}

Q1Launch == <<"Q","1"," ","L","a","u","n","c","h","!">>

\* the titles: options.title || state.projectMeta?.title || 'Schedule' is
\* never empty
TitleInputs ==
  UNION {[1..n -> TitleUnits] : n \in 1..MaxTitleLen} \cup {Q1Launch, DefaultTitle}

InitName ==
  /\ Loaded(<<>>, FALSE, 0, {}, {})
  /\ CodeIdle
  /\ ColsIdle
  /\ CapIdle
  /\ nameIn \in TitleInputs
  /\ nameOut = <<>>
  /\ nameAgain = <<>>

\* const fileName = title.replace(/[^a-zA-Z0-9]/g, '_')
Derive ==
  /\ nameOut = <<>>
  /\ nameOut' = deriveFileName(nameIn)
  /\ UNCHANGED <<nameIn, nameAgain, codeVars, colsVars, capVars, sessionVars, pubVars, last, nFail,
                 envVars>>

\* the same replace, given a fileName as the title
DeriveAgain ==
  /\ nameOut # <<>>
  /\ nameAgain = <<>>
  /\ nameAgain' = deriveFileName(nameOut)
  /\ UNCHANGED <<nameIn, nameOut, codeVars, colsVars, capVars, sessionVars, pubVars, last, nFail,
                 envVars>>

NextName == Derive \/ DeriveAgain

SpecName == InitName /\ [][NextName]_vars

(* ------------------------------------- the hidden columns on their own *)
ColKeys == {"time", "notes", "drag"}
\* c.print: true, false, or not set (undefined)
PrintFlags == {"true", "false", "unset"}
Columns == [key : ColKeys, print : PrintFlags]

\* readState?.()?.cols: <<>> when readState or cols is missing, else <<cols>>
ColsInputs == {<<>>} \cup {<<cs>> : cs \in UNION {[1..n -> Columns] : n \in 0..MaxCols}}

\* !c.print
notPrint(c) == c.print # "true"

\* Array.prototype.filter
RECURSIVE filter(_, _)
filter(cs, i) ==
  IF i > Len(cs) THEN <<>>
  ELSE (IF notPrint(cs[i]) THEN <<cs[i]>> ELSE <<>>) \o filter(cs, i + 1)

\* const cols = window.readState?.()?.cols || [];
\* const hiddenCols = cols.filter(c => !c.print).map(c => c.key);
\* hiddenCols.push('drag', 'sharpie', 'actions');
hiddenCols(colsRead) ==
  LET cols == Nullish(colsRead, <<>>)
      kept == filter(cols, 1)
  IN [i \in 1..Len(kept) |-> kept[i].key] \o <<"drag", "sharpie", "actions">>

InitCols ==
  /\ Loaded(<<>>, FALSE, 0, {}, {})
  /\ CodeIdle
  /\ NameIdle
  /\ CapIdle
  /\ colsIn \in ColsInputs
  /\ hiddenOut = <<>>

\* the lines of captureTableHTML that compute hiddenCols
ComputeHidden ==
  /\ hiddenOut = <<>>
  /\ hiddenOut' = hiddenCols(colsIn)
  /\ UNCHANGED <<colsIn, codeVars, nameVars, capVars, sessionVars, pubVars, last, nFail,
                 envVars>>

NextCols == ComputeHidden

SpecCols == InitCols /\ [][NextCols]_vars

(* ---------------------------------------- captureTableHTML on its own *)
\* An element is its tag, its class, its draggable attribute and its
\* children.  The hiding of the columns writes style properties of elements
\* of the clone, which the elements here do not carry.
Element(tag, cls, draggable, kids) ==
  [tag |-> tag, cls |-> cls, draggable |-> draggable, kids |-> kids]

\* the elements below the table, without their children
ElementKinds ==
  {<<"td", "", FALSE>>, <<"button", "", FALSE>>, <<"input", "", FALSE>>,
   <<"td", "drag-cell", FALSE>>, <<"span", "sharpie", FALSE>>,
   <<"td", "actions-cell", FALSE>>, <<"tr", "", TRUE>>}

Leaves == {Element(k[1], k[2], k[3], <<>>) : k \in ElementKinds}
SiblingLeaves == {Element("td", "", FALSE, <<>>), Element("button", "", FALSE, <<>>)}

\* the lists of children over a set of subtrees: none, one, or one and a leaf
KidsOver(sub) ==
  {<<>>} \cup {<<c>> : c \in sub} \cup {<<c, l>> : c \in sub, l \in SiblingLeaves}

\* the subtrees of depth up to d
RECURSIVE Trees(_)
Trees(d) ==
  IF d = 0 THEN Leaves
  ELSE LET kids == KidsOver(Trees(d - 1))
       IN {Element(k[1], k[2], k[3], ks) : k \in ElementKinds, ks \in kids}

\* the element document.querySelector('.schedule') finds, if any
Tables ==
  {Element("table", "schedule", d, ks) :
     d \in BOOLEAN, ks \in KidsOver(Trees(MaxDepth - 1))}

\* the selector 'button, input, .drag-cell, .sharpie, .actions-cell'
matchesInteractive(e) ==
  \/ e.tag \in {"button", "input"}
  \/ e.cls \in {"drag-cell", "sharpie", "actions-cell"}

\* the selector '[draggable]'
matchesDraggable(e) == e.draggable

\* root.querySelectorAll(sel).forEach(el => el.remove()): the matching
\* descendants of root leave the tree, with all they contain
RECURSIVE removeAll(_)
removeAll(root) ==
  LET kept == SelectSeq(root.kids, LAMBDA k : ~matchesInteractive(k))
  IN [root EXCEPT !.kids = [i \in DOMAIN kept |-> removeAll(kept[i])]]

\* the attribute draggable is removed from e and its descendants
RECURSIVE undrag(_)
undrag(e) ==
  [e EXCEPT !.draggable = FALSE,
            !.kids = [i \in DOMAIN e.kids |-> undrag(e.kids[i])]]

\* root.querySelectorAll('[draggable]').forEach(el =>
\* el.removeAttribute('draggable')): the descendants of root
removeDraggable(root) ==
  [root EXCEPT !.kids = [i \in DOMAIN root.kids |-> undrag(root.kids[i])]]

InitCapture ==
  /\ Loaded(<<>>, FALSE, 0, {}, {})
  /\ CodeIdle
  /\ NameIdle
  /\ ColsIdle
  /\ \E t \in Tables \cup {null} : dom = [table |-> t, clone |-> null]
  /\ capRef = "none"
  /\ capPc = "query"
  /\ capHtml = null

CapFrame == UNCHANGED <<codeVars, nameVars, colsVars, sessionVars, pubVars, last,
                        nFail, envVars>>

\* if (!table) return null
CapNoTable ==
  /\ capPc = "query"
  /\ dom.table = null
  /\ capPc' = "done"
  /\ UNCHANGED <<dom, capRef, capHtml>>
  /\ CapFrame

\* const clone = table.cloneNode(true)
CapClone ==
  /\ capPc = "query"
  /\ dom.table # null
  /\ dom' = [dom EXCEPT !.clone = dom.table]
  /\ capRef' = "clone"
  /\ capPc' = "cloned"
  /\ UNCHANGED capHtml
  /\ CapFrame

\* clone.querySelectorAll('button, input, ...').forEach(el => el.remove())
CapRemove ==
  /\ capPc = "cloned"
  /\ dom' = [dom EXCEPT ![capRef] = removeAll(@)]
  /\ capPc' = "removed"
  /\ UNCHANGED <<capRef, capHtml>>
  /\ CapFrame

\* clone.querySelectorAll('[draggable]').forEach(el =>
\* el.removeAttribute('draggable'))
CapUndrag ==
  /\ capPc = "removed"
  /\ dom' = [dom EXCEPT ![capRef] = removeDraggable(@)]
  /\ capPc' = "undragged"
  /\ UNCHANGED <<capRef, capHtml>>
  /\ CapFrame

\* the html returned: the styles and clone.outerHTML inside the div
CapBuild ==
  /\ capPc = "undragged"
  /\ capHtml' = [style |-> "captureStyles", fragment |-> dom[capRef]]
  /\ capPc' = "done"
  /\ UNCHANGED <<dom, capRef>>
  /\ CapFrame

NextCapture == CapNoTable \/ CapClone \/ CapRemove \/ CapUndrag \/ CapBuild

SpecCapture == InitCapture /\ [][NextCapture]_vars

(* ------------------------------------------------------------ claims *)
\* a call that began and settled in one step: pushBroadcast threw before
\* its first await, or the hook did not call it
SettledAtCall == nPub' = nPub + 1 /\ proc' = proc

\* the invocation p resolves in this step
Succeeds(p) ==
  /\ proc[p].pc \in {"update", "insert"}
  /\ proc'[p].pc = "idle"
  /\ currentBroadcast' # null
  /\ last'.err = "none"

KeyOf(r) == <<r.user_id, r.file_name>>
RowsOf(user, fileName) == {r \in records : KeyOf(r) = <<user, fileName>>}
Identity(rs) == {[id |-> r.id, code |-> r.code, key |-> KeyOf(r)] : r \in rs}

C2_DistinctRecord ==
  [][\A p \in Procs :
       LET q == proc[p]
           others == {r \in records : r.user_id = q.user /\ r.file_name # q.fileName}
       IN (Succeeds(p) /\ others # {} /\ RowsOf(q.user, q.fileName) = {})
          => \E new \in records' :
               /\ new \notin records
               /\ records' = records \cup {new}
               /\ KeyOf(new) = <<q.user, q.fileName>>
               /\ new.code = last'.code
               /\ \A r \in others : r.code # new.code
    ]_vars

\* C3: the store never holds two records with the same (user_id, file_name).
C3_OnePerKey ==
  \A r1, r2 \in records : KeyOf(r1) = KeyOf(r2) => r1 = r2

\* a publish of the hook whose lookup answered "no record" had its insert
\* refused, a manual publish having created the record in between
C3_Witness ==
  /\ last.origin = "hook"
  /\ last.err = "insertError"
  /\ Len(last.trace) = 4
  /\ last.trace[1] = [c |-> "find", res |-> "ok"]
  /\ last.trace[4] = [c |-> "insert", res |-> "duplicate"]
  /\ \E r \in RowsOf(last.user, last.fileName) : ~r.auto_update

Identityless(l) ==
  /\ l.origin # "none"
  /\ l.settled # "skipped"
  /\ ~l.isAuth \/ l.user = "null"

\* C4: a call of pushBroadcast without an authenticated identity is over at
\* the call with an auth error and an empty list of remote calls, no
\* invocation in flight is without identity, and the step of the rejection
\* leaves the records, the blobs and the cache as they were.
C4_AuthNoCalls ==
  /\ [](\A p \in Procs : InFlight(p) => proc[p].isAuth /\ proc[p].user \in users)
  /\ [](Identityless(last) => last.err \in AuthErrors /\ last.trace = <<>>)
  /\ [][(SettledAtCall /\ last'.err \in AuthErrors)
          => UNCHANGED <<records, blobs, currentBroadcast>>]_vars

\* an unauthenticated call rejected while the cache holds a record
C4_Witness ==
  /\ last.err \in AuthErrors
  /\ Identityless(last)
  /\ currentBroadcast # null

\* C5: a call of pushBroadcast by an authenticated user without a table is
\* over at the call with the capture error and an empty list of remote
\* calls, no invocation in flight is without a table, and the step of the
\* rejection leaves the records, the blobs and the cache as they were.
C5_CaptureNoCalls ==
  /\ [](\A p \in Procs : InFlight(p) => proc[p].table = "present")
  /\ [](last.table = "absent" => last.err = CaptureError /\ last.trace = <<>>)
  /\ [][(SettledAtCall /\ last'.err = CaptureError)
          => UNCHANGED <<records, blobs, currentBroadcast>>]_vars

\* an authenticated call without a table rejected while the cache holds a
\* record
C5_Witness ==
  /\ last.err = CaptureError
  /\ last.isAuth /\ last.user \in users /\ last.table = "absent"
  /\ currentBroadcast # null

FailedCalls(trace) ==
  {i \in DOMAIN trace : trace[i].c # "remove" /\ trace[i].res # "ok"}

\* C6: a failed lookup, upload, insert or update ends the publish: no
\* invocation still in flight, and none that resolved, has one behind it.
C6_StoreErrorsReject ==
  /\ \A p \in Procs : InFlight(p) => FailedCalls(proc[p].trace) = {}
  /\ last.err = "none" => FailedCalls(last.trace) = {}

HookBegins(p) ==
  /\ ~InFlight(p)
  /\ proc'[p].pc # "idle"
  /\ proc'[p].origin = "hook"

\* C7: a call of hookAutoBroadcast with the flag on calls pushBroadcast once
\* with autoUpdate true (one invocation begins, or one is rejected at the
\* call); with the flag off it calls nothing and leaves the invocations, the
\* records, the blobs and the cache as they were.
C7_HookFollowsFlag ==
  [][/\ \A p \in Procs :
          HookBegins(p) => /\ autoBroadcast
                           /\ proc'[p].optAuto = <<TRUE>>
                           /\ \A q \in Procs \ {p} : proc'[q] = proc[q]
     /\ (SettledAtCall /\ last'.origin = "hook")
          => IF last'.settled = "skipped"
             THEN ~autoBroadcast /\ UNCHANGED <<records, blobs, currentBroadcast>>
             ELSE autoBroadcast /\ last'.optAuto = <<TRUE>>
    ]_vars

\* an invocation begun by the hook is in flight
C7_Witness ==
  \E p \in Procs : /\ proc[p].origin = "hook"
                   /\ proc[p].optAuto = <<TRUE>>
                   /\ proc[p].pc = "find"
                   /\ autoBroadcast

\* C8: a rejection of the pushBroadcast the hook called ends in the hook's
\* catch and goes no further.
C8_HookSwallows ==
  (last.origin = "hook" /\ last.err # "none") => last.settled = "logged"

\* the upload of a publish begun by the hook failed
C8_Witness ==
  /\ last.origin = "hook"
  /\ last.err = "uploadError"
  /\ last.settled = "logged"

\* C9: as long as no setter was called the flag is on only if the stored
\* string is 'true'; once a setter was called with b, the stored string is
\* that of b and, init having run, the flag is b, also after reloads; and
\* the step of a setter writes the flag and the stored string together.
C9_FlagPersists ==
  /\ [](lastSet = <<>> =>
          autoBroadcast = (~initPending /\ localStorage = <<"true">>))
  /\ [](lastSet # <<>> =>
          /\ localStorage = <<toStr(lastSet[1])>>
          /\ ~initPending => autoBroadcast = lastSet[1])
  /\ [][lastSet' # lastSet =>
          /\ autoBroadcast' = lastSet'[1]
          /\ localStorage' = <<toStr(lastSet'[1])>>]_vars

\* the flag was set to false and reads false after a page load whose init
\* has run, the stored string being 'false'
C9_Witness ==
  /\ lastSet = <<FALSE>>
  /\ ~autoBroadcast /\ ~initPending
  /\ localStorage = <<"false">>
  /\ currentBroadcast = null /\ records # {}

Alphabet == {chars[i] : i \in DOMAIN chars}
Ambiguous == {"I", "O", "0", "1"}

WellFormedCode(code) ==
  /\ Len(code) = 6
  /\ \A i \in DOMAIN code : code[i] \in Alphabet
  /\ Alphabet \cap Ambiguous = {}

\* C10 as stated: every code has 6 characters of an alphabet of exactly 33
\* distinct characters with none of I, O, 0, 1.
C10_Alphabet33 ==
  genOut # <<>> => WellFormedCode(genOut) /\ Cardinality(Alphabet) = 33

\* C10: every code has 6 characters of an alphabet of exactly 32 distinct
\* characters with none of I, O, 0, 1.
C10_Alphabet32 ==
  genOut # <<>> => WellFormedCode(genOut) /\ Cardinality(Alphabet) = 32

\* a code drawn with the last index in one place and the first elsewhere
C10_Witness ==
  /\ genOut = <<"A", "A", "9", "A", "A", "A">>
  /\ rnd[3] = Len(chars) - 1

\* C11: the fileName has the length of the title, keeps each letter and
\* digit in its place and has '_' in every other place; "Q1 Launch!" gives
\* "Q1_Launch_"; and a fileName derived again is unchanged.
C11_FileNamePure ==
  /\ nameOut # <<>> =>
       /\ Len(nameOut) = Len(nameIn)
       /\ \A i \in 1..Len(nameIn) :
            nameOut[i] = IF nameIn[i] \in AlNum THEN nameIn[i] ELSE "_"
       /\ nameIn = Q1Launch =>
            nameOut = <<"Q","1","_","L","a","u","n","c","h","_">>
  /\ nameAgain # <<>> => nameAgain = nameOut

\* "Q1 Launch!" was derived, and its fileName derived again
C11_Witness ==
  /\ nameIn = Q1Launch
  /\ nameOut = <<"Q","1","_","L","a","u","n","c","h","_">>
  /\ nameAgain = nameOut

BuiltIn == {"drag", "sharpie", "actions"}
Suppressed == {hiddenOut[i] : i \in DOMAIN hiddenOut}
ColsOf(cfg) == IF cfg = <<>> THEN {} ELSE {cfg[1][i] : i \in DOMAIN cfg[1]}

\* C12 as stated: the suppressed keys are the built-in keys and the keys of
\* the columns whose print flag is false, and no others; a column whose
\* print flag is not set is not suppressed unless its key is built in.
C12_SuppressedSet ==
  hiddenOut # <<>> =>
    Suppressed = BuiltIn \cup {c.key : c \in {x \in ColsOf(colsIn) : x.print = "false"}}

\* the insert of the invocation p is refused as a duplicate in this step
LosesInsert(p) ==
  /\ proc[p].pc = "insert"
  /\ insertRefused(insertFields(proc[p]))
  /\ proc'[p].pc = "idle"
  /\ last'.trace[Len(last'.trace)] = [c |-> "insert", res |-> "duplicate"]

\* C13: a publish whose lookup ran with an empty cache and found no record,
\* and whose insert the store refuses as a duplicate, is over with the
\* insert's error given to its caller (to the catch of the hook when the
\* hook called it); it has made one insert and no update, the other
\* invocations go on as they were, and the cache, the records and the blobs
\* are as the step found them.
C13_LoserRejects ==
  [][\A p \in Procs :
       LosesInsert(p) =>
         /\ last'.err = "insertError"
         /\ last'.settled = IF proc[p].origin = "hook" THEN "logged" ELSE "rejected"
         /\ Cardinality({i \in DOMAIN last'.trace :
                           last'.trace[i].c \in {"insert", "update"}}) = 1
         /\ \A q \in Procs \ {p} : proc'[q] = proc[q]
         /\ UNCHANGED <<currentBroadcast, records, blobs>>
    ]_vars

\* a manual publish lost its insert to the publish of the hook, whose record
\* the cache holds
C13_Witness ==
  /\ last.origin = "push"
  /\ last.err = "insertError"
  /\ last.settled = "rejected"
  /\ last.trace = <<[c |-> "find", res |-> "ok"], [c |-> "remove", res |-> "ok"],
                    [c |-> "upload", res |-> "ok"],
                    [c |-> "insert", res |-> "duplicate"]>>
  /\ currentBroadcast # null
  /\ currentBroadcast.auto_update
  /\ KeyOf(currentBroadcast) = <<last.user, last.fileName>>
  /\ records = {currentBroadcast}

\* the page is loaded in this step: a new process
PageLoads ==
  /\ last' = NoneSettled
  /\ nPub' = nPub
  /\ proc' = [p \in Procs |-> IdleProc]
  /\ records' = records

\* C14: an invocation that began with a record in the cache is never at the
\* lookup or the insert and has no lookup behind it, and an invocation
\* begins warm exactly when the cache holds a record; the cache is empty
\* when the process starts; each step that changes it is a page load, which
\* empties it, or the step in which a publish resolves, which puts in it
\* the record the store returned, whose code the publish returns; no other
\* step empties it.
C14_CacheSkipsLookup ==
  /\ [](\A p \in Procs :
          (InFlight(p) /\ proc[p].warm) =>
             /\ proc[p].pc \in {"remove", "upload", "update"}
             /\ \A i \in DOMAIN proc[p].trace : proc[p].trace[i].c # "find")
  /\ [][\A p \in Procs :
          (~InFlight(p) /\ proc'[p].pc # "idle") =>
             /\ proc'[p].warm = (currentBroadcast # null)
             /\ proc'[p].warm => proc'[p].broadcast = currentBroadcast]_vars
  /\ [][currentBroadcast' # currentBroadcast =>
          \/ PageLoads /\ currentBroadcast' = null
          \/ \E p \in Procs : /\ Succeeds(p)
                               /\ currentBroadcast' \in records'
                               /\ currentBroadcast'.code = last'.code]_vars
  /\ [][PageLoads => currentBroadcast' = null]_vars

\* a publish that began with a record in the cache resolved after remove,
\* upload and update, without a lookup
C14_Witness ==
  /\ last.err = "none"
  /\ last.trace = <<[c |-> "remove", res |-> "ok"], [c |-> "upload", res |-> "ok"],
                    [c |-> "update", res |-> "ok"]>>
  /\ currentBroadcast # null
  /\ currentBroadcast.code = last.code

\* the invocation p rejects in this step
Rejects(p) ==
  /\ InFlight(p)
  /\ proc'[p].pc = "idle"
  /\ last'.err # "none"

\* C15 as stated: when a publish rejects, the records and the cache are as
\* its rejecting step found them and the blob store holds nothing this publish
\* uploaded: the body captured by its call is at no path.
C15_RejectPublishesNothing ==
  [][\A p \in Procs :
       Rejects(p) =>
         /\ UNCHANGED <<records, currentBroadcast>>
         /\ \A b \in blobs' : b.body # proc[p].n
    ]_vars

PathOf(q) == htmlPath(q.user, q.fileName)
LastCall(trace) == trace[Len(trace)]

\* C16: a remove that succeeds leaves no object at the path of its publish;
\* when the upload that follows it fails, the publish is over with the
\* upload's error, and that step leaves the records, the cache and the
\* blobs as it found them: the body removed is not restored, the record and
\* its code stay.
C16_RemoveThenUploadFails ==
  [][\A p \in Procs :
       /\ (proc[p].pc = "remove" /\ proc'[p].pc = "upload"
             /\ LastCall(proc'[p].trace).res = "ok")
            => \A b \in blobs' : b.path # PathOf(proc[p])
       /\ (proc[p].pc = "upload" /\ Rejects(p)
             /\ LastCall(proc[p].trace) = [c |-> "remove", res |-> "ok"])
            => /\ last'.err = "uploadError"
               /\ last'.settled # "resolved"
               /\ LastCall(last'.trace).c = "upload"
               /\ UNCHANGED <<records, currentBroadcast, blobs>>
    ]_vars

\* a publish of a document that has a record removed the body and failed
\* at the upload: the record is there, held by the cache, its body is not
C16_Witness ==
  /\ last.err = "uploadError"
  /\ last.trace = <<[c |-> "remove", res |-> "ok"], [c |-> "upload", res |-> "error"]>>
  /\ currentBroadcast # null
  /\ currentBroadcast \in RowsOf(last.user, last.fileName)
  /\ \A b \in blobs : b.path # htmlPath(last.user, last.fileName)

\* the upload of the invocation p is answered in this step by a blob store
\* that works
UploadAnswered(p) ==
  /\ proc[p].pc = "upload"
  /\ proc'[p].pc \in {"update", "insert"} \/ Rejects(p)
  /\ nFail' = nFail

\* C17 as stated: an upload answered by a working blob store succeeds,
\* whatever the path holds, and the path then holds the body of this
\* publish.
C17_UploadOverwrites ==
  [][\A p \in Procs :
       UploadAnswered(p) =>
         /\ proc'[p].pc \in {"update", "insert"}
         /\ [path |-> PathOf(proc[p]), body |-> proc[p].n] \in blobs'
    ]_vars

Names(trace) == [i \in DOMAIN trace |-> trace[i].c]
IsPrefix(s, t) == Len(s) <= Len(t) /\ \A i \in DOMAIN s : s[i] = t[i]

\* the calls in the order of the source, with or without the lookup
InOrder(trace) ==
  \E lookup \in {<<>>, <<"find">>}, write \in {"insert", "update"} :
    IsPrefix(Names(trace), lookup \o <<"remove", "upload", write>>)

\* the record is written only behind an upload that succeeded, and only
\* the remove has a call behind its failure
WriteAfterUpload(trace) ==
  \A i \in DOMAIN trace :
    /\ trace[i].c \in {"insert", "update"} =>
         i > 1 /\ trace[i - 1] = [c |-> "upload", res |-> "ok"]
    /\ (trace[i].c \in {"upload", "insert", "update"} /\ trace[i].res # "ok") =>
         i = Len(trace)

\* C18: the calls an invocation has made, in flight or settled, are a
\* beginning of lookup, remove, upload, insert or update, the lookup being
\* there or not; an insert or update has the successful upload of the same
\* invocation right before it; a failed upload, insert or update is the
\* last call; and a step adds at most one call to one invocation, the one
\* that invocation is at.
C18_CallOrder ==
  /\ [](\A p \in Procs : InOrder(proc[p].trace) /\ WriteAfterUpload(proc[p].trace))
  /\ [](InOrder(last.trace) /\ WriteAfterUpload(last.trace))
  /\ [][\A p \in Procs :
          (InFlight(p) /\ proc'[p] # proc[p] /\ ~PageLoads) =>
             /\ \A q \in Procs \ {p} : proc'[q] = proc[q]
             /\ LET after == IF proc'[p].pc = "idle" THEN last'.trace
                                                     ELSE proc'[p].trace
                IN /\ Len(after) = Len(proc[p].trace) + 1
                   /\ IsPrefix(proc[p].trace, after)
                   /\ LastCall(after).c = proc[p].pc]_vars

\* a publish whose remove failed went on to upload and insert, and resolved
C18_Witness ==
  /\ last.err = "none"
  /\ last.trace = <<[c |-> "find", res |-> "ok"], [c |-> "remove", res |-> "error"],
                    [c |-> "upload", res |-> "ok"], [c |-> "insert", res |-> "ok"]>>

\* C19 as stated: when a publish resolves, the record that has the code it
\* returns is of the user of the publish and has the fileName derived from
\* its title, the fileName of the path it uploaded to.
C19_CodeLeadsToSnapshot ==
  [][\A p \in Procs :
       Succeeds(p) =>
         \A r \in records' :
           r.code = last'.code =>
             /\ r.user_id = proc[p].user
             /\ r.file_name = proc[p].fileName
             /\ proc[p].fileName = deriveFileName(proc[p].title)
    ]_vars

\* e and the elements below it, at any depth
RECURSIVE ElementsOf(_)
ElementsOf(e) == {e} \cup UNION {ElementsOf(e.kids[i]) : i \in DOMAIN e.kids}

\* C20 as stated: the fragment returned for a table has, at any depth, no
\* button, no input, no element of class drag-cell, sharpie or actions-cell
\* and no element with the attribute draggable; and no step of the
\* extraction changes the table of the page.
C20_NoInteractive ==
  /\ []((capPc = "done" /\ capHtml # null) =>
          \A e \in ElementsOf(capHtml.fragment) :
            ~matchesInteractive(e) /\ ~matchesDraggable(e))
  /\ [][dom # null => dom'.table = dom.table]_vars

====
